---- MODULE Spec2Model ----
(***************************************************************************)
(* Model of tle/email_forward.py: the scan of a mailbox for forwarded      *)
(* sign-up mails (mailbox, _unprocessed_emails, new_users), the validator  *)
(* of one message (_forwarding_user with _forwarded_data, _forwarded_text, *)
(* _forwarded_headers, _email_address, _forwarded_from, _headers_to) and   *)
(* the registration call (create_kajabi_user).                             *)
(*                                                                         *)
(* A Python string is a sequence of one-character strings.  A value that  *)
(* may be None, a string, a list or a raised exception is a record tagged  *)
(* by its field k: None, Str(s), List(l), Exc(name).                       *)
(***************************************************************************)
EXTENDS Integers, Sequences, FiniteSets, TLC

VARIABLES
    \* ---- one message under the validator (specification SpecVal)
    gen,        \* how the message was put together (not read by the code)
    msg,        \* the message: [deliveredTo, subject, payload]
    cfg,        \* [to_addrs, fwd_addr, subject]
    tpc,        \* "idle" | "ready" | "done": the call of _forwarded_text
    text,       \* result of _forwarded_text(msg) once tpc = "done"
    upc,        \* "idle" | "ready" | "done": the call of _forwarding_user
    user        \* result of _forwarding_user(msg, ...) once upc = "done"

vvars == <<gen, msg, cfg, tpc, text, upc, user>>

VARIABLES
    \* ---- one scan, new_users(...) consumed by its caller (specification Spec)
    spc,        \* where the scan stands: "init", "login", "select", "search",
                \* "fetch", "yield", "close", "logout", "done"
    arrived,    \* number of messages delivered to the mailbox so far (ids 1..arrived)
    unseen,     \* ids of the messages without the \Seen flag
    msgs,       \* the ids the for loop of _unprocessed_emails still has to fetch
    res,        \* the result of the latest search
    got,        \* the ids fetched since the latest search
    searchLog,  \* the results of all searches, in order
    fetched,    \* the ids fetched, in order
    handled,    \* what _forwarding_user returned or raised, per fetched message
    yielded,    \* the user records yielded to the caller, in order
    calls,      \* the commands issued on the connection, in order
    codes,      \* per command of calls, the status the server answered with
                \* ("none" when the command raised without one)
    errors,     \* every exception raised during the scan
    pending,    \* the exception on its way out of the with block, or None
    raised      \* what reached the caller of new_users when spc = "done"

svars == <<spc, arrived, unseen, msgs, res, got, searchLog, fetched, handled,
           yielded, calls, codes, errors, pending, raised>>

VARIABLES
    \* ---- one call of create_kajabi_user (specification SpecKajabi)
    kpc,        \* "idle" | "ready" | "done"
    kuser,      \* the user record the call is made for
    posts,      \* the parameters of the POSTs issued, in order
    kresp,      \* the response to the latest POST: [status_code, text]
    kres        \* what create_kajabi_user returned once kpc = "done"

kvars == <<kpc, kuser, posts, kresp, kres>>

vars == <<vvars, svars, kvars>>

None == [k |-> "None"]
Str(s) == [k |-> "str", v |-> s]
List(l) == [k |-> "list", v |-> l]
Exc(name) == [k |-> "exc", exc |-> name]
IsNone(r) == r.k = "None"
IsExc(r) == r.k = "exc"

\* ------------------------------------------------------------- strings

LowerMap ==
    [A |-> "a", B |-> "b", C |-> "c", D |-> "d", E |-> "e", F |-> "f",
     G |-> "g", H |-> "h", I |-> "i", J |-> "j", K |-> "k", L |-> "l",
     M |-> "m", N |-> "n", O |-> "o", P |-> "p", Q |-> "q", R |-> "r",
     S |-> "s", T |-> "t", U |-> "u", V |-> "v", W |-> "w", X |-> "x",
     Y |-> "y", Z |-> "z"]

\* str.lower()
Lower(s) ==
    [k \in 1..Len(s) |-> IF s[k] \in DOMAIN LowerMap THEN LowerMap[s[k]] ELSE s[k]]

\* str.startswith(p)
StartsWith(s, p) ==
    /\ Len(s) >= Len(p)
    /\ SubSeq(s, 1, Len(p)) = p

\* the characters str.strip() and str.lstrip() remove
Whitespace == {" ", "\t", "\n", "\r"}

\* not s.strip()
IsBlank(s) == \A k \in 1..Len(s) : s[k] \in Whitespace

\* s[n:]
SliceFrom(s, n) == SubSeq(s, n + 1, Len(s))

Min(S) == CHOOSE x \in S : \A y \in S : x <= y

\* the first position at or after p of a character of s in the set cs,
\* Len(s) + 1 when there is none
FirstIn(s, cs, p) == Min({k \in p..Len(s) : s[k] \in cs} \cup {Len(s) + 1})

\* the first position at or after p of a character of s not in cs
FirstNotIn(s, cs, p) == Min({k \in p..Len(s) : s[k] \notin cs} \cup {Len(s) + 1})

\* s.lstrip()
LStrip(s) == SliceFrom(s, FirstNotIn(s, Whitespace, 1) - 1)

CRLF == <<"\r", "\n">>

\* s.split('\r\n')
RECURSIVE SplitCRLF(_)
SplitAt(s, i) ==
    IF i > Len(s) THEN <<s>>
    ELSE <<SubSeq(s, 1, i - 1)>> \o SplitCRLF(SliceFrom(s, i + 1))

SplitCRLF(s) ==
    SplitAt(s, Min({k \in 1..(Len(s) - 1) : s[k] = "\r" /\ s[k + 1] = "\n"}
                   \cup {Len(s) + 1}))

\* '\r\n'.join(lines)
RECURSIVE JoinCRLF(_)
JoinCRLF(lines) ==
    IF lines = <<>> THEN <<>>
    ELSE IF Len(lines) = 1 THEN lines[1]
    ELSE lines[1] \o CRLF \o JoinCRLF(Tail(lines))

\* ------------------------------------------------------------- _forwarded_data

GmailBegin ==
    <<"-","-","-","-","-","-","-","-","-","-"," ","F","o","r","w","a","r","d","e","d",
      " ","m","e","s","s","a","g","e"," ","-","-","-","-","-","-","-","-","-","-">>

IPhoneBegin ==
    <<"B","e","g","i","n"," ","f","o","r","w","a","r","d","e","d"," ",
      "m","e","s","s","a","g","e",":">>

\* headers = ['from', 'date', 'subject', 'to']
ExpectedHeaders ==
    << <<"f","r","o","m">>, <<"d","a","t","e">>,
       <<"s","u","b","j","e","c","t">>, <<"t","o">> >>

\* list.remove at a known index
RemoveAt(l, k) == SubSeq(l, 1, k - 1) \o SubSeq(l, k + 1, Len(l))

\* The state of one call of _forwarded_data: the list of headers still
\* expected, the lines collected so far, and how the call stands:
\* "run" (still looping), "return" (returned text), "IndexError" (raised).
DataInit == [headers |-> ExpectedHeaders, text |-> <<>>, st |-> "run"]

\* a header loop that passes over a line for which no collected line is
\* there to append to
RECURSIVE HeaderLoopLenient(_, _, _)
HeaderLoopLenient(s, datum, k) ==
    IF k > Len(s.headers) THEN s
    ELSE IF StartsWith(Lower(datum), s.headers[k])
    THEN [s EXCEPT !.text = Append(@, datum), !.headers = RemoveAt(@, k)]
    ELSE IF s.text = <<>>
    THEN s
    ELSE HeaderLoopLenient(
            [s EXCEPT !.text[Len(s.text)] = @ \o <<" ">> \o datum],
            datum, k + 1)

\* for header in headers: ... (lines 96-101), from the k-th header on.
\* The append to text[-1] is inside the loop: it runs once for every header
\* tried before the one that matches, and raises IndexError on an empty text.
RECURSIVE HeaderLoop(_, _, _)
HeaderLoop(s, datum, k) ==
    IF k > Len(s.headers) THEN s
    ELSE IF StartsWith(Lower(datum), s.headers[k])
    THEN [s EXCEPT !.text = Append(@, datum), !.headers = RemoveAt(@, k)]
    ELSE IF s.text = <<>>
    THEN [s EXCEPT !.st = "IndexError"]
    ELSE HeaderLoop(
            [s EXCEPT !.text[Len(s.text)] = @ \o <<" ">> \o datum],
            datum, k + 1)

\* datum.startswith('>') -> datum[2:] (lines 92-94)
Unquote(datum) ==
    IF StartsWith(datum, <<">">>) THEN SliceFrom(datum, 2) ELSE datum

\* an iteration that returns when at most one header is still expected
DataStepEarly(s, datum) ==
    IF s.st # "run" THEN s
    ELSE IF Len(s.headers) <= 1 THEN [s EXCEPT !.st = "return"]
    ELSE IF IsBlank(datum) THEN s
    ELSE HeaderLoop(s, Unquote(datum), 1)

\* One iteration of the inner loop, for datum in data[i+1:] (lines 88-101)
DataStep(s, datum) ==
    IF s.st # "run" THEN s
    ELSE IF s.headers = <<>> THEN [s EXCEPT !.st = "return"]
    ELSE IF IsBlank(datum) THEN s
    ELSE HeaderLoop(s, Unquote(datum), 1)

\* the inner loop over data[j..]
RECURSIVE InnerLoop(_, _, _)
InnerLoop(s, data, j) ==
    IF j > Len(data) \/ s.st # "run" THEN s
    ELSE InnerLoop(DataStep(s, data[j]), data, j + 1)

\* the outer loop, for (i, line) in enumerate(data), from line i on:
\* headers and text live across the iterations
RECURSIVE OuterLoop(_, _, _, _)
OuterLoop(s, data, begin, i) ==
    IF i > Len(data) \/ s.st # "run" THEN s
    ELSE IF data[i] = begin
    THEN OuterLoop(InnerLoop(s, data, i + 1), data, begin, i + 1)
    ELSE OuterLoop(s, data, begin, i + 1)

\* _forwarded_data(data, begin): the list of lines, None (the loops ran out
\* without a return), or the exception raised
DataResult(s) ==
    IF s.st = "return" THEN List(s.text)
    ELSE IF s.st = "IndexError" THEN Exc("IndexError")
    ELSE None

ForwardedData(data, begin) == DataResult(OuterLoop(DataInit, data, begin, 1))

\* ------------------------------------------------------------- _forwarded_text

\* _forwarded_text(msg): m.payload is the decoded payload (of the message,
\* or of its first part), split on CRLF; Gmail first, iPhone when that
\* returned None.  An exception of the Gmail scan leaves the function.
IPhoneUnlessText(gmail, data) ==
    IF IsNone(gmail) THEN ForwardedData(data, IPhoneBegin) ELSE gmail

ForwardedTextOf(data) == IPhoneUnlessText(ForwardedData(data, GmailBegin), data)

ForwardedText(m) == ForwardedTextOf(SplitCRLF(m.payload))
\* ------------------------------------------------------------- _forwarded_headers

\* email.feedparser's headerRE: a unix-from line, a field name (printable
\* characters other than space and colon) followed by a colon, or a
\* continuation line
FieldName(line, i) ==
    /\ 2 <= i /\ i <= Len(line)
    /\ \A k \in 1..(i - 1) : line[k] \notin Whitespace

HeaderRE(line) ==
    \/ StartsWith(line, <<"F","r","o","m"," ">>)
    \/ FieldName(line, FirstIn(line, {":"}, 1))
    \/ line # <<>> /\ line[1] \in {" ", "\t"}

\* the lines the parser takes as the header section: up to the first line
\* headerRE does not match
RECURSIVE HeaderLines(_)
HeaderLines(lines) ==
    IF lines = <<>> \/ ~HeaderRE(Head(lines)) THEN <<>>
    ELSE <<Head(lines)>> \o HeaderLines(Tail(lines))

\* FeedParser._parse_headers: a continuation line extends the last field,
\* a unix-from line adds no field, every other line is name ':' value with
\* the value left-stripped
Field(line, i) ==
    [name |-> SubSeq(line, 1, i - 1), value |-> LStrip(SliceFrom(line, i))]

ParseLine(line, acc) ==
    IF line[1] \in {" ", "\t"}
    THEN IF acc = <<>> THEN acc
         ELSE [acc EXCEPT ![Len(acc)].value = @ \o CRLF \o line]
    ELSE IF StartsWith(line, <<"F","r","o","m"," ">>) THEN acc
    ELSE Append(acc, Field(line, FirstIn(line, {":"}, 1)))

RECURSIVE ParseHeaderLines(_, _)
ParseHeaderLines(lines, acc) ==
    IF lines = <<>> THEN acc
    ELSE ParseHeaderLines(Tail(lines), ParseLine(Head(lines), acc))

\* _forwarded_headers(box, text): join on CRLF, parse headers only
ForwardedHeaders(lines) ==
    ParseHeaderLines(HeaderLines(SplitCRLF(JoinCRLF(lines))), <<>>)

\* Message.get(name): the first field of that name, whatever the case
RECURSIVE Get(_, _)
Get(headers, name) ==
    IF headers = <<>> THEN None
    ELSE IF Lower(Head(headers).name) = Lower(name) THEN Str(Head(headers).value)
    ELSE Get(Tail(headers), name)

\* ------------------------------------------------------------- _email_address

\* email._parseaddr.AddrlistClass, for fields without comments, quoted
\* strings, domain literals, commas and semicolons (Unported): the address
\* part of the first address.
Specials == {"(", ")", "<", ">", "@", ",", ":", ";", ".", "\"", "[", "]"}
Unported == {"(", ")", ",", ";", "\"", "[", "]", "\\"}
LWS == {" ", "\t"}
FWS == {" ", "\t", "\r", "\n"}
AtomEnds == Specials \cup FWS
PhraseEnds == AtomEnds \ {"."}

\* gotonext: skip white space
GoToNext(f, p) == FirstNotIn(f, FWS, p)

\* getatom: the end of the atom that starts at p
AtomEnd(f, p, ends) == FirstIn(f, ends, p)

\* getphraselist: [first |-> plist[0] (<<>> when plist is empty), pos]
RECURSIVE GetPhraseList(_, _, _)
GetPhraseList(f, p, first) ==
    IF p > Len(f) THEN [first |-> first, pos |-> p]
    ELSE IF f[p] \in FWS THEN GetPhraseList(f, p + 1, first)
    ELSE IF f[p] \in PhraseEnds THEN [first |-> first, pos |-> p]
    ELSE GetPhraseList(f, AtomEnd(f, p, PhraseEnds),
            IF first = <<>> THEN SubSeq(f, p, AtomEnd(f, p, PhraseEnds) - 1)
            ELSE first)

\* getdomain: [v, pos]; a second '@' gives the empty domain
RECURSIVE GetDomain(_, _, _)
GetDomain(f, p, acc) ==
    IF p > Len(f) THEN [v |-> acc, pos |-> p]
    ELSE IF f[p] \in LWS THEN GetDomain(f, p + 1, acc)
    ELSE IF f[p] = "." THEN GetDomain(f, p + 1, Append(acc, "."))
    ELSE IF f[p] = "@" THEN [v |-> <<>>, pos |-> p]
    ELSE IF f[p] \in AtomEnds THEN [v |-> acc, pos |-> p]
    ELSE GetDomain(f, AtomEnd(f, p, AtomEnds),
            acc \o SubSeq(f, p, AtomEnd(f, p, AtomEnds) - 1))

\* the local part of getaddrspec: [v, pos]
RECURSIVE GetLocal(_, _, _)
GetLocal(f, p, acc) ==
    IF p > Len(f) THEN [v |-> acc, pos |-> p]
    ELSE IF f[p] = "." THEN GetLocal(f, GoToNext(f, p + 1), Append(acc, "."))
    ELSE IF f[p] \in AtomEnds THEN [v |-> acc, pos |-> p]
    ELSE GetLocal(f, GoToNext(f, AtomEnd(f, p, AtomEnds)),
            acc \o SubSeq(f, p, AtomEnd(f, p, AtomEnds) - 1))

\* getaddrspec: local part, then '@' and the domain; an empty domain gives
\* the empty address
AddrSpecOf(loc, dom) ==
    IF dom.v = <<>> THEN [v |-> <<>>, pos |-> dom.pos]
    ELSE [v |-> loc.v \o <<"@">> \o dom.v, pos |-> dom.pos]

AddrSpecAfter(f, loc) ==
    IF loc.pos > Len(f) \/ f[loc.pos] # "@" THEN loc
    ELSE AddrSpecOf(loc, GetDomain(f, GoToNext(f, loc.pos + 1), <<>>))

GetAddrSpec(f, p) == AddrSpecAfter(f, GetLocal(f, GoToNext(f, p), <<>>))

\* self.pos += 1 after a parse
Skip1(a) == [a EXCEPT !.pos = @ + 1]

\* the loop of getrouteaddr, after the '<'
RECURSIVE RouteLoop(_, _, _)
RouteLoop(f, p, expectroute) ==
    IF p > Len(f) THEN [v |-> <<>>, pos |-> p]
    ELSE IF expectroute
    THEN RouteLoop(f, GoToNext(f, GetDomain(f, p, <<>>).pos), FALSE)
    ELSE IF f[p] = ">" THEN [v |-> <<>>, pos |-> p + 1]
    ELSE IF f[p] = "@" THEN RouteLoop(f, GoToNext(f, p + 1), TRUE)
    ELSE IF f[p] = ":" THEN RouteLoop(f, GoToNext(f, p + 1), FALSE)
    ELSE Skip1(GetAddrSpec(f, p))

GetRouteAddr(f, p) == RouteLoop(f, GoToNext(f, p + 1), FALSE)

\* getaddress: [found |-> the returned list is not empty, email |-> the
\* address part of its first entry, pos].  A group (':') returns the
\* addresses that follow the colon.
RECURSIVE GetAddress(_, _)
RECURSIVE GroupLoop(_, _)
GroupNext(f, r) ==
    IF r.found THEN [r EXCEPT !.pos = Len(f) + 1] ELSE GroupLoop(f, r.pos)

GroupLoop(f, p) ==
    IF p > Len(f) THEN [found |-> FALSE, email |-> <<>>, pos |-> p]
    ELSE GroupNext(f, GetAddress(f, GoToNext(f, p)))

Found(f, a) == [found |-> TRUE, email |-> a.v, pos |-> GoToNext(f, a.pos)]

\* the branches of getaddress, the phrase list pl read from oldpos on
AddressAfter(f, oldpos, pl, q) ==
    IF q > Len(f)
    THEN [found |-> pl.first # <<>>, email |-> pl.first, pos |-> q]
    ELSE IF f[q] = "@" THEN Found(f, GetAddrSpec(f, oldpos))
    ELSE IF f[q] = ":" THEN GroupLoop(f, q + 1)
    ELSE IF f[q] = "<" THEN Found(f, GetRouteAddr(f, q))
    ELSE IF pl.first # <<>>
    THEN [found |-> TRUE, email |-> pl.first, pos |-> q]
    ELSE [found |-> FALSE, email |-> <<>>, pos |-> GoToNext(f, q + 1)]

AddressFrom(f, oldpos, pl) == AddressAfter(f, oldpos, pl, GoToNext(f, pl.pos))

AddressAt(f, oldpos) == AddressFrom(f, oldpos, GetPhraseList(f, oldpos, <<>>))

GetAddress(f, p) == AddressAt(f, GoToNext(f, p))

\* email.utils.parseaddr(line)[1]: the address part, <<>> when there is none
\* (also for None and for the empty string)
FirstEmail(r) == IF r.found THEN r.email ELSE <<>>

ParseAddr(line) ==
    IF IsNone(line) \/ line.v = <<>> THEN <<>>
    ELSE FirstEmail(GetAddress(line.v, 1))

\* _email_address(line): None when the address part is empty, else the
\* pair (name, email), of which the callers use the email
NoneIfEmpty(email) == IF email = <<>> THEN None ELSE Str(email)

EmailAddress(line) == NoneIfEmpty(ParseAddr(line))

\* ------------------------------------------------------------- _forwarding_user

Friendly == <<"F","r","i","e","n","d","l","y">>
Human == <<"H","u","m","a","n">>

\* a record that takes its names from nowhere fixed: the placeholders swapped
UserRecordSwapped(email) ==
    [k |-> "user", email |-> email, first_name |-> Human, last_name |-> Friendly]

UserRecord(email) ==
    [k |-> "user", email |-> email, first_name |-> Friendly, last_name |-> Human]
IsUser(r) == r.k = "user"

\* _forwarded_from(headers): unpacking the None of _email_address raises
\* TypeError (line 143), before the test of line 144
\* (name, email) = _email_address(...): unpacking None raises TypeError
Unpack(r) == IF IsNone(r) THEN Exc("TypeError") ELSE r

FromUser(r) == IF IsExc(r) THEN r ELSE UserRecord(r.v)

ForwardedFrom(headers) ==
    FromUser(Unpack(EmailAddress(Get(headers, <<"F","r","o","m">>))))

\* _headers_to(headers): the same unpacking at line 155; the branch that
\* returns the raw header (line 157) is never taken, email is not None there
HeadersTo(headers) == Unpack(EmailAddress(Get(headers, <<"T","o">>)))

FwdPrefix == <<"F","w","d",":"," ">>

\* the checks of _forwarding_user on the forwarded block (lines 215-248)
\* lines 226-248, headers_to = _headers_to(headers)
CheckTo(headers_to, headers, c) ==
    IF IsExc(headers_to) THEN headers_to
    ELSE IF Lower(headers_to.v) \notin {Lower(a) : a \in c.to_addrs} THEN None
    ELSE IF ~IsNone(c.subject)
            /\ Get(headers, <<"S","u","b","j","e","c","t">>) # c.subject
    THEN None
    ELSE ForwardedFrom(headers)

\* lines 225-248, headers = _forwarded_headers(box, text)
CheckHeaders(headers, c) == CheckTo(HeadersTo(headers), headers, c)

CheckForwarded(txt, c) ==
    IF IsExc(txt) THEN txt
    ELSE IF IsNone(txt) THEN None
    ELSE CheckHeaders(ForwardedHeaders(txt.v), c)

\* the outer checks with the test of the subject (lines 203-213) left out
OuterOkNoSubject(m, c) ==
    /\ ~IsNone(m.deliveredTo)
    /\ Lower(m.deliveredTo.v) = Lower(c.fwd_addr)

\* the checks of _forwarding_user on the outer message (lines 186-213):
\* TRUE when the body is to be examined
OuterOk(m, c) ==
    /\ ~IsNone(m.deliveredTo)
    /\ Lower(m.deliveredTo.v) = Lower(c.fwd_addr)
    /\ IsNone(c.subject) \/ m.subject = Str(FwdPrefix \o c.subject.v)

\* a validator that examines the body before the outer headers
ForwardingUserBodyFirst(m, c) ==
    IF IsExc(ForwardedText(m)) THEN ForwardedText(m)
    ELSE IF ~OuterOk(m, c) THEN None
    ELSE CheckForwarded(ForwardedText(m), c)

\* _forwarding_user(box, msg, to_addrs, fwd_addr, subject): a user record,
\* None, or the exception that leaves it
ForwardingUser(m, c) ==
    IF ~OuterOk(m, c) THEN None
    ELSE CheckForwarded(ForwardedText(m), c)
\* ------------------------------------------------------------- the validator's inputs

\* the most noise lines put into one forwarded block
MaxNoise == 1
\* the most lines that follow the forwarded block
MaxTail == 1

InboxAddr == <<"i","n","b","o","x","@","s","v","c",".","c","o","m">>
SignupAddr == <<"s","i","g","n","u","p","@","s","v","c",".","c","o","m">>
JoinUs == <<"J","o","i","n"," ","U","s">>
JaneLine ==
    <<"J","a","n","e"," ","D","o","e"," ","<","j","a","n","e","@",
      "e","x","a","m","p","l","e",".","c","o","m",">">>
JaneAddr == <<"j","a","n","e","@","e","x","a","m","p","l","e",".","c","o","m">>
DateValue == <<"M","o","n"," ","2"," ","J","a","n"," ","2","0","1","2">>

\* values of Delivered-To and Subject on the outer message
DeliveredTos ==
    {None, Str(InboxAddr),
     Str(<<"I","n","b","o","x","@","S","V","C",".","c","o","m">>),
     Str(<<"o","t","h","e","r","@","s","v","c",".","c","o","m">>)}
OuterSubjects ==
    {None, Str(<<"F","w","d",":"," ">> \o JoinUs), Str(JoinUs),
     Str(<<"F","w","d",":"," ","j","o","i","n"," ","u","s">>)}

\* values of the four forwarded header lines
FromValues ==
    {JaneLine, JaneAddr, <<"J","a","n","e"," ","D","o","e">>,
     <<"J","a","n","e"," ","D","o","e"," ","<",">">>, <<>>}
SubjectValues == {JoinUs, <<"J","o","i","n"," ","u","s">>}
ToValues ==
    {SignupAddr, <<"S","I","G","N","U","P","@","S","V","C",".","C","O","M">>,
     <<"S","i","g","n"," ","U","p"," ","<","s","i","g","n","u","p","@",
       "s","v","c",".","c","o","m",">">>,
     <<"o","t","h","e","r","@","s","v","c",".","c","o","m">>, <<>>}

Configs ==
    [to_addrs : {{SignupAddr},
                 {<<"S","i","g","n","U","p","@","s","v","c",".","c","o","m">>,
                  <<"j","o","i","n","@","s","v","c",".","c","o","m">>}},
     fwd_addr : {InboxAddr},
     subject : {None, Str(JoinUs)}]

\* the scenario's configuration
MainConfig ==
    [to_addrs |-> {SignupAddr}, fwd_addr |-> InboxAddr, subject |-> Str(JoinUs)]

HeaderNames ==
    << <<"F","r","o","m">>, <<"D","a","t","e">>,
       <<"S","u","b","j","e","c","t">>, <<"T","o">> >>

\* lines put between the lines of a forwarded block: a blank line, a quote
\* prefix with nothing after it, a continuation line
BlankLine == <<>>
QuotedBlank == <<">", " ">>
Continuation == <<"s","e","e"," ","b","e","l","o","w">>
NoiseLines == {BlankLine, QuotedBlank, Continuation}
TailLines == {BlankLine, <<"H","e","l","l","o">>}

Markers == {"gmail", "iphone", "none"}
MarkerLine(m) ==
    IF m = "gmail" THEN <<GmailBegin>>
    ELSE IF m = "iphone" THEN <<IPhoneBegin>>
    ELSE <<>>

\* sequences over S of length at most n
SeqUpTo(S, n) == UNION {[1..k -> S] : k \in 0..n}

\* the k-th header line of the block: name, colon, space, value, behind the
\* quote prefix "> " when k is in g.quoted
HeaderLine(g, k) ==
    (IF k \in g.quoted THEN <<">", " ">> ELSE <<>>)
    \o HeaderNames[k] \o <<":", " ">> \o g.values[k]

\* put line after the first pos lines of block
InsertAt(block, pos, line) ==
    SubSeq(block, 1, pos) \o <<line>> \o SubSeq(block, pos + 1, Len(block))

RECURSIVE InsertAll(_, _)
InsertAll(block, noise) ==
    IF noise = <<>> THEN block
    ELSE InsertAll(InsertAt(block, Head(noise).pos, Head(noise).line), Tail(noise))

\* the lines of the body: a greeting, the marker line, the header lines
\* g.order names, in that order, with the noise put in, the tail
BodyLines(g) ==
    << <<"H","i">> >> \o MarkerLine(g.marker)
    \o InsertAll([k \in 1..Len(g.order) |-> HeaderLine(g, g.order[k])], g.noise)
    \o g.tail

Message(g) ==
    [deliveredTo |-> g.deliveredTo, subject |-> g.subject,
     payload |-> JoinCRLF(BodyLines(g))]

Canonical == <<1, 2, 3, 4>>
GoodValues == <<JaneLine, DateValue, JoinUs, SignupAddr>>

\* Bodies: every order of the four lines, every choice of quoted lines,
\* some noise, some tail, under a good outer message
GenBodies ==
    [marker : {"gmail", "iphone"},
     order : Permutations(1..4),
     quoted : SUBSET (1..4),
     noise : {<<>>},
     tail : SeqUpTo(TailLines, MaxTail),
     values : {GoodValues},
     deliveredTo : {Str(InboxAddr)},
     subject : {Str(<<"F","w","d",":"," ">> \o JoinUs)}]
    \cup
    [marker : {"gmail", "iphone"},
     order : Permutations(1..4),
     quoted : {{}, 1..4},
     noise : SeqUpTo([pos : 0..4, line : NoiseLines], MaxNoise),
     tail : {<<BlankLine>>},
     values : {GoodValues},
     deliveredTo : {Str(InboxAddr)},
     subject : {Str(<<"F","w","d",":"," ">> \o JoinUs)}]

\* header lines of a body that lacks some of the four, or repeats one
PartialOrders ==
    {<<>>, <<1>>, <<1, 2>>, <<1, 2, 3>>, <<1, 3, 4>>, <<2, 3, 4>>, <<1, 2, 2, 3>>}

\* Bodies with fewer than four of the expected header lines
GenPartial ==
    [marker : {"gmail", "iphone"},
     order : PartialOrders,
     quoted : {{}, 1..4},
     noise : {<<>>},
     tail : SeqUpTo(TailLines, MaxTail),
     values : {GoodValues},
     deliveredTo : {Str(InboxAddr)},
     subject : {Str(<<"F","w","d",":"," ">> \o JoinUs)}]

\* Messages: every value of the outer and of the forwarded headers, the
\* block in the order From, Date, Subject, To
GenMessages ==
    [marker : Markers,
     order : {Canonical},
     quoted : {{}},
     noise : {<<>>},
     tail : {<<BlankLine>>},
     values : {<<f, DateValue, s, t>> :
                  f \in FromValues, s \in SubjectValues, t \in ToValues},
     deliveredTo : DeliveredTos,
     subject : OuterSubjects]

\* Messages: every value of the outer headers, over a body whose forwarded
\* block starts with the Date line
GenOuter ==
    [marker : {"gmail"},
     order : {<<2, 1, 3, 4>>},
     quoted : {{}},
     noise : {<<>>},
     tail : {<<BlankLine>>},
     values : {GoodValues},
     deliveredTo : DeliveredTos,
     subject : OuterSubjects]

\* ------------------------------------------------------------- SpecVal

ValInit ==
    /\ \/ gen \in GenBodies /\ cfg = MainConfig
       \/ gen \in GenPartial /\ cfg = MainConfig
       \/ gen \in GenMessages \cup GenOuter /\ cfg \in Configs
    /\ msg = Message(gen)
    /\ tpc = "ready" /\ text = None
    /\ upc = "ready" /\ user = None
    /\ spc = "idle" /\ arrived = 0 /\ unseen = {} /\ msgs = <<>>
    /\ res = <<>> /\ got = <<>> /\ searchLog = <<>> /\ fetched = <<>>
    /\ handled = <<>> /\ yielded = <<>> /\ calls = <<>> /\ codes = <<>>
    /\ errors = {}
    /\ pending = None /\ raised = None
    /\ kpc = "idle" /\ kuser = None /\ posts = <<>> /\ kresp = None /\ kres = None

\* text = _forwarded_text(msg)
CallForwardedText ==
    /\ tpc = "ready"
    /\ tpc' = "done"
    /\ text' = ForwardedText(msg)
    /\ UNCHANGED <<gen, msg, cfg, upc, user, svars, kvars>>

\* user = _forwarding_user(box, msg, to_addrs, fwd_addr, subject)
CallForwardingUser ==
    /\ upc = "ready"
    /\ upc' = "done"
    /\ user' = ForwardingUser(msg, cfg)
    /\ UNCHANGED <<gen, msg, cfg, tpc, text, svars, kvars>>

ValNext == CallForwardedText \/ CallForwardingUser

SpecVal == ValInit /\ [][ValNext]_vars

\* ------------------------------------------------------------- the scan

\* the most messages delivered to the mailbox
MaxMsgs == 3

\* an exception raised by a command or by the validator
Error(name, by) == [k |-> "exc", exc |-> name, by |-> by]

\* the arguments new_users passes on to _forwarding_user
ScanConfig == MainConfig

GoodGen ==
    [marker |-> "gmail", order |-> Canonical, quoted |-> {}, noise |-> <<>>,
     tail |-> <<BlankLine>>, values |-> GoodValues,
     deliveredTo |-> Str(InboxAddr),
     subject |-> Str(<<"F","w","d",":"," ">> \o JoinUs)]

\* the messages of the mailbox: one that passes every check, one delivered
\* to another address, one without a forwarded block, one whose forwarded
\* From carries no address
ScanMsgs ==
    {Message(GoodGen),
     Message([GoodGen EXCEPT !.deliveredTo =
                Str(<<"o","t","h","e","r","@","s","v","c",".","c","o","m">>)]),
     Message([GoodGen EXCEPT !.marker = "none"]),
     Message([GoodGen EXCEPT !.values[1] =
                <<"J","a","n","e"," ","D","o","e"," ","<",">">>])}

\* the ids of S in ascending order, as the server lists them
RECURSIVE Ascending(_)
Ascending(S) ==
    IF S = {} THEN <<>> ELSE <<Min(S)>> \o Ascending(S \ {Min(S)})

Init ==
    /\ spc = "init" /\ arrived \in 0..MaxMsgs /\ unseen = 1..arrived
    /\ msgs = <<>> /\ res = <<>> /\ got = <<>> /\ searchLog = <<>>
    /\ fetched = <<>> /\ handled = <<>> /\ yielded = <<>> /\ calls = <<>>
    /\ codes = <<>> /\ errors = {} /\ pending = None /\ raised = None
    /\ gen = None /\ msg = None /\ cfg = None
    /\ tpc = "idle" /\ text = None /\ upc = "idle" /\ user = None
    /\ kpc = "idle" /\ kuser = None /\ posts = <<>> /\ kresp = None /\ kres = None

\* a try block that swallows the exception: the clean-up runs, nothing is
\* under way afterwards
RaiseSwallowed(e) ==
    /\ errors' = errors \cup {e}
    /\ pending' = None
    /\ spc' = "close"

\* an exception leaves the try block of mailbox: the finally clause runs
Raise(e) ==
    /\ errors' = errors \cup {e}
    /\ pending' = e
    /\ spc' = "close"

\* mail = IMAP4_SSL(server) (line 59), outside the try block
Connect(ok) ==
    /\ spc = "init"
    /\ IF ok
       THEN /\ spc' = "login"
            /\ UNCHANGED <<errors, raised>>
       ELSE /\ spc' = "done"
            /\ errors' = errors \cup {Error("socket.error", "connect")}
            /\ raised' = Error("socket.error", "connect")
    /\ UNCHANGED <<arrived, unseen, msgs, res, got, searchLog, fetched, handled,
                   yielded, calls, codes, pending>>
    /\ UNCHANGED <<vvars, kvars>>

\* mail.login(username, password) (line 61): imaplib raises IMAP4.error
\* itself when the server refuses
Login(ok) ==
    /\ spc = "login"
    /\ calls' = Append(calls, "login")
    /\ codes' = Append(codes, IF ok THEN "OK" ELSE "NO")
    /\ IF ok
       THEN spc' = "select" /\ UNCHANGED <<errors, pending>>
       ELSE Raise(Error("IMAP4.error", "login"))
    /\ UNCHANGED <<arrived, unseen, msgs, res, got, searchLog, fetched, handled,
                   yielded, raised>>
    /\ UNCHANGED <<vvars, kvars>>

\* imap4_cmd (lines 11-24): a code other than OK raises ValueError
Imap4Cmd(name, code) ==
    IF code # "OK" THEN Error("ValueError", name) ELSE None

\* res = mail.select(name, readonly) (line 62), then yield mail
Select(code) ==
    /\ spc = "select"
    /\ calls' = Append(calls, "select")
    /\ codes' = Append(codes, code)
    /\ IF IsNone(Imap4Cmd("select", code))
       THEN spc' = "search" /\ UNCHANGED <<errors, pending>>
       ELSE Raise(Imap4Cmd("select", code))
    /\ UNCHANGED <<arrived, unseen, msgs, res, got, searchLog, fetched, handled,
                   yielded, raised>>
    /\ UNCHANGED <<vvars, kvars>>

\* _unseen(line) (lines 162-163): line[0].split().  box.search has split
\* the id list already (line 40), so line[0] is the first id, and an id
\* holds no white space: the result is the list of that one id.
Unseen(line) == <<line[1]>>

\* a loop that takes a search result of one id for the end of the mail
AfterSearchShort(ids) ==
    IF Len(ids) <= 1
    THEN spc' = "close" /\ msgs' = <<>>
    ELSE spc' = "fetch" /\ msgs' = Unseen(ids)

\* where the scan goes once a search returned ids (lines 165-167)
AfterSearch(ids) ==
    IF ids = <<>>
    THEN spc' = "close" /\ msgs' = <<>>
    ELSE spc' = "fetch" /\ msgs' = Unseen(ids)

\* msgs = box.search(None, 'UNSEEN') (lines 164 and 170) and the test of
\* the while loop
Search(code) ==
    /\ spc = "search"
    /\ calls' = Append(calls, "search")
    /\ codes' = Append(codes, code)
    /\ IF IsNone(Imap4Cmd("search", code))
       THEN /\ res' = Ascending(unseen)
            /\ got' = <<>>
            /\ searchLog' = Append(searchLog, Ascending(unseen))
            /\ AfterSearch(Ascending(unseen))
            /\ UNCHANGED <<errors, pending>>
       ELSE /\ Raise(Imap4Cmd("search", code))
            /\ UNCHANGED <<msgs, res, got, searchLog>>
    /\ UNCHANGED <<arrived, unseen, fetched, handled, yielded, raised>>
    /\ UNCHANGED <<vvars, kvars>>

\* the for loop goes on with the next id, or the scan searches again
NextMsg ==
    /\ msgs' = Tail(msgs)
    /\ spc' = IF Tail(msgs) = <<>> THEN "search" ELSE "fetch"

\* lines 306-314 of new_users on the result of _forwarding_user
Handle(u) ==
    /\ handled' = Append(handled, u)
    /\ IF IsExc(u)
       THEN /\ Raise(Error(u.exc, "validate"))
            /\ UNCHANGED <<msgs, yielded>>
       ELSE IF IsUser(u)
       THEN /\ yielded' = Append(yielded, u)
            /\ spc' = "yield"
            /\ UNCHANGED <<msgs, errors, pending>>
       ELSE /\ NextMsg
            /\ UNCHANGED <<yielded, errors, pending>>

\* msg = box.fetch(msg, '(RFC822)') (line 168): the server marks the
\* message seen; the message m goes to _forwarding_user (lines 305-314)
Fetch(code, m) ==
    /\ spc = "fetch"
    /\ calls' = Append(calls, "fetch")
    /\ codes' = Append(codes, code)
    /\ IF IsNone(Imap4Cmd("fetch", code))
       THEN /\ unseen' = unseen \ {Head(msgs)}
            /\ fetched' = Append(fetched, Head(msgs))
            /\ got' = Append(got, Head(msgs))
            /\ Handle(ForwardingUser(m, ScanConfig))
       ELSE /\ Raise(Imap4Cmd("fetch", code))
            /\ UNCHANGED <<unseen, fetched, got, handled, msgs, yielded>>
    /\ UNCHANGED <<arrived, res, searchLog, raised>>
    /\ UNCHANGED <<vvars, kvars>>

\* the caller asks for the next record: the generator goes on after
\* yield user (line 314)
Resume ==
    /\ spc = "yield"
    /\ NextMsg
    /\ UNCHANGED <<arrived, unseen, res, got, searchLog, fetched, handled,
                   yielded, calls, codes, errors, pending, raised>>
    /\ UNCHANGED <<vvars, kvars>>

\* the caller drops the generator: GeneratorExit is raised at yield user
CallerCloses ==
    /\ spc = "yield"
    /\ pending' = Error("GeneratorExit", "caller")
    /\ spc' = "close"
    /\ UNCHANGED <<arrived, unseen, msgs, res, got, searchLog, fetched, handled,
                   yielded, calls, codes, errors, raised>>
    /\ UNCHANGED <<vvars, kvars>>

\* a close whose IMAP4.error is not caught: it leaves the finally clause
\* before mail.logout()
CloseUncaught(r) ==
    /\ spc = "close"
    /\ calls' = Append(calls, "close")
    /\ codes' = Append(codes, IF r = "error" THEN "none" ELSE r)
    /\ errors' = IF r = "error"
                 THEN errors \cup {Error("IMAP4.error", "close")} ELSE errors
    /\ spc' = IF r = "error" THEN "done" ELSE "logout"
    /\ raised' = IF r = "error" THEN Error("IMAP4.error", "close") ELSE raised
    /\ UNCHANGED <<arrived, unseen, msgs, res, got, searchLog, fetched, handled,
                   yielded, pending>>
    /\ UNCHANGED <<vvars, kvars>>

\* what mail.close() can come to: the server answers OK, the server
\* answers NO (imaplib returns the pair, no exception), or imaplib raises
\* IMAP4.error (CLOSE is illegal in the connection's state, or answered BAD)
CloseResults == {"OK", "NO", "error"}

\* mail.close() in the finally clause (lines 70-74): IMAP4.error is caught;
\* the pair (status, data) that close returns is dropped
Close(r) ==
    /\ spc = "close"
    /\ calls' = Append(calls, "close")
    /\ codes' = Append(codes, IF r = "error" THEN "none" ELSE r)
    /\ errors' = IF r = "error"
                 THEN errors \cup {Error("IMAP4.error", "close")} ELSE errors
    /\ spc' = "logout"
    /\ UNCHANGED <<arrived, unseen, msgs, res, got, searchLog, fetched, handled,
                   yielded, pending, raised>>
    /\ UNCHANGED <<vvars, kvars>>

\* what the caller of new_users sees once the with block is left: the
\* exception under way, nothing for GeneratorExit or a normal end
Outcome(e) == IF IsExc(e) /\ e.exc # "GeneratorExit" THEN e ELSE None

\* mail.logout() in the finally clause (lines 75-79): IMAP4.error is caught
Logout(ok) ==
    /\ spc = "logout"
    /\ calls' = Append(calls, "logout")
    /\ codes' = Append(codes, IF ok THEN "BYE" ELSE "none")
    /\ errors' = IF ok THEN errors ELSE errors \cup {Error("IMAP4.error", "logout")}
    /\ spc' = "done"
    /\ raised' = Outcome(pending)
    /\ UNCHANGED <<arrived, unseen, msgs, res, got, searchLog, fetched, handled,
                   yielded, pending>>
    /\ UNCHANGED <<vvars, kvars>>

\* the mailbox while the scan is under way: new mail is delivered
Arrive ==
    /\ spc \in {"search", "fetch"}
    /\ arrived < MaxMsgs
    /\ arrived' = arrived + 1
    /\ unseen' = unseen \cup {arrived + 1}
    /\ UNCHANGED <<spc, msgs, res, got, searchLog, fetched, handled, yielded,
                   calls, codes, errors, pending, raised>>
    /\ UNCHANGED <<vvars, kvars>>

\* another client marks a message seen
OtherSeen(id) ==
    /\ spc \in {"search", "fetch"}
    /\ id \in unseen
    /\ unseen' = unseen \ {id}
    /\ UNCHANGED <<spc, arrived, msgs, res, got, searchLog, fetched, handled,
                   yielded, calls, codes, errors, pending, raised>>
    /\ UNCHANGED <<vvars, kvars>>

Next ==
    \/ \E ok \in BOOLEAN : Connect(ok)
    \/ \E ok \in BOOLEAN : Login(ok)
    \/ \E code \in {"OK", "NO"} : Select(code)
    \/ \E code \in {"OK", "NO"} : Search(code)
    \/ \E code \in {"OK", "NO"}, m \in ScanMsgs : Fetch(code, m)
    \/ Resume
    \/ CallerCloses
    \/ \E r \in CloseResults : Close(r)
    \/ \E ok \in BOOLEAN : Logout(ok)
    \/ Arrive
    \/ \E id \in 1..MaxMsgs : OtherSeen(id)

Spec == Init /\ [][Next]_vars

\* a scan of a mailbox that nobody else touches: no mail is delivered and
\* no other client changes a flag while the scan runs
QuietNext ==
    \/ \E ok \in BOOLEAN : Connect(ok)
    \/ \E ok \in BOOLEAN : Login(ok)
    \/ \E code \in {"OK", "NO"} : Select(code)
    \/ \E code \in {"OK", "NO"} : Search(code)
    \/ \E code \in {"OK", "NO"}, m \in ScanMsgs : Fetch(code, m)
    \/ Resume
    \/ CallerCloses
    \/ \E r \in CloseResults : Close(r)
    \/ \E ok \in BOOLEAN : Logout(ok)

SpecQuiet == Init /\ [][QuietNext]_vars

\* ------------------------------------------------------------- create_kajabi_user

One == <<"1">>

\* what the registration service may answer
StatusCodes == {200, 201, 302, 404, 500}
Bodies == {One, <<"0">>, <<>>, <<"1", "1">>, <<"1", "\n">>, <<"o", "k">>}

KajabiUsers ==
    {UserRecord(e) : e \in {JaneAddr, SignupAddr, InboxAddr, <<"J","a","n","e">>}}

KajabiInit ==
    /\ kpc = "ready" /\ kuser \in KajabiUsers
    /\ posts = <<>> /\ kresp = None /\ kres = None
    /\ spc = "idle" /\ arrived = 0 /\ unseen = {} /\ msgs = <<>>
    /\ res = <<>> /\ got = <<>> /\ searchLog = <<>> /\ fetched = <<>>
    /\ handled = <<>> /\ yielded = <<>> /\ calls = <<>> /\ codes = <<>>
    /\ errors = {}
    /\ pending = None /\ raised = None
    /\ gen = None /\ msg = None /\ cfg = None
    /\ tpc = "idle" /\ text = None /\ upc = "idle" /\ user = None

\* a test of the status code alone
SucceededOnStatus(r) == r.status_code = 200

\* the test of line 275 on the response
Succeeded(r) == ~(r.text # One \/ r.status_code # 200)

\* create_kajabi_user(session, ..., email, first_name, last_name): the
\* service answers the one POST with status code and body
CreateKajabiUser(status, body) ==
    /\ kpc = "ready"
    /\ posts' = Append(posts, [email |-> kuser.email,
                               first_name |-> kuser.first_name,
                               last_name |-> kuser.last_name])
    /\ kresp' = [status_code |-> status, text |-> body]
    /\ kres' = Succeeded([status_code |-> status, text |-> body])
    /\ kpc' = "done"
    /\ UNCHANGED <<kuser, vvars, svars>>

KajabiNext == \E status \in StatusCodes, body \in Bodies : CreateKajabiUser(status, body)

SpecKajabi == KajabiInit /\ [][KajabiNext]_vars

\* ============================================================= the claims

\* the forwarded headers as _forwarding_user reconstructs them from m
Rebuilt(m) == ForwardedHeaders(ForwardedText(m).v)

\* the address part of a reconstructed header
AddressOf(m, name) == ParseAddr(Get(Rebuilt(m), name))

\* every check of the claim C1 on the outer message and on the
\* reconstructed headers
AllChecks(m, c) ==
    /\ ~IsNone(m.deliveredTo)
    /\ Lower(m.deliveredTo.v) = Lower(c.fwd_addr)
    /\ ~IsNone(c.subject) =>
          /\ ~IsNone(m.subject)
          /\ m.subject.v = <<"F","w","d",":"," ">> \o c.subject.v
    /\ ForwardedText(m).k = "list"
    /\ \E a \in c.to_addrs : Lower(a) = Lower(AddressOf(m, <<"T","o">>))
    /\ ~IsNone(c.subject) =>
          Get(Rebuilt(m), <<"S","u","b","j","e","c","t">>) = Str(c.subject.v)
    /\ AddressOf(m, <<"F","r","o","m">>) # <<>>

\* C1: _forwarding_user returns a user record only if every check holds:
\* Delivered-To present and equal to fwd_addr ignoring case, the outer
\* Subject equal to 'Fwd: ' + subject when a subject is configured, a
\* forwarded block extracted, the lowercased address of the reconstructed
\* To among the lowercased to_addrs, the reconstructed Subject equal to the
\* configured one, and an address part in the reconstructed From.
C1_RecordOnlyIfAllChecks ==
    (upc = "done" /\ IsUser(user)) => AllChecks(msg, cfg)

\* a record returned under a configured subject, for a Delivered-To that
\* equals fwd_addr only when case is ignored
C1_Witness ==
    /\ upc = "done" /\ IsUser(user)
    /\ ~IsNone(cfg.subject)
    /\ msg.deliveredTo # Str(cfg.fwd_addr)

\* C2: _forwarding_user ends by returning a user record or None and never
\* raises; in particular, when the reconstructed From or To carries no
\* address part the result is None, not an exception.  Stated for the
\* messages whose forwarded block was extracted, where the address parsing
\* of the claim takes place.
C2_NeverRaises ==
    (upc = "done" /\ ForwardedText(msg).k = "list") =>
        /\ ~IsExc(user)
        /\ (/\ OuterOk(msg, cfg)
            /\ \/ AddressOf(msg, <<"F","r","o","m">>) = <<>>
               \/ AddressOf(msg, <<"T","o">>) = <<>>) => IsNone(user)

\* the loop of _unprocessed_emails is between two batches, or has ended
\* on an empty search
BatchOver ==
    \/ spc = "search"
    \/ spc \in {"close", "logout", "done"} /\ IsNone(pending)

\* C3: the iterator fetches one message for each id of a search result, in
\* order, before it searches again; with searches that return [1, 2], then
\* [3], then nothing, it yields exactly 3 messages and stops.
C3_FetchesEveryIdOfASearch ==
    /\ BatchOver => got = res
    /\ (spc = "done" /\ searchLog = << <<1, 2>>, <<3>>, <<>> >>) => Len(fetched) = 3

\* C4: a validation failure of one message, a failure to parse an address
\* out of the reconstructed From or To included, is not fatal to the scan:
\* the message is skipped and no error leaves the scan on its account.
C4_ValidationFailureNotFatal ==
    \A e \in errors : e.by # "validate"

\* number of times the command c was issued
Count(c) == Cardinality({i \in 1..Len(calls) : calls[i] = c})

\* the connection object exists: IMAP4_SSL(server) returned
Connected == spc # "init" /\ Error("socket.error", "connect") \notin errors

\* C5: once the connection object exists, every exit from the mailbox
\* scope attempts close and then logout, in that order, exactly once each;
\* an IMAP4 error of close is swallowed and does not prevent the logout,
\* an IMAP4 error of logout is swallowed.
C5_CloseThenLogoutOnEveryExit ==
    /\ Count("close") <= 1 /\ Count("logout") <= 1
    /\ spc \notin {"logout", "done"} => Count("logout") = 0
    /\ (spc = "done" /\ Connected) =>
          /\ Len(calls) >= 2
          /\ calls[Len(calls) - 1] = "close"
          /\ calls[Len(calls)] = "logout"
          /\ IsExc(raised) => raised.by \notin {"close", "logout"}

\* an error raised while two messages were still to be fetched, close and
\* logout both failing on the way out
C5_Witness ==
    /\ spc = "done"
    /\ raised = Error("ValueError", "search")
    /\ Error("IMAP4.error", "close") \in errors
    /\ Error("IMAP4.error", "logout") \in errors
    /\ Len(fetched) >= 1

MailboxCommands == {"login", "select", "search", "fetch"}

\* C6: an error raised by login, select, search or fetch is fatal to the
\* scan: it reaches the caller of new_users, and no message is fetched and
\* no record yielded after it; the only errors that do not reach the
\* caller are those of close and logout.
C6_MailboxErrorsAreFatal ==
    /\ [](spc = "done" =>
            \A e \in errors :
                /\ e.by \in MailboxCommands => raised = e
                /\ e # raised => e.by \in {"close", "logout"})
    /\ [][(\E e \in errors : e.by \in MailboxCommands) =>
            /\ fetched' = fetched
            /\ yielded' = yielded
            /\ Count("fetch")' = Count("fetch")
            /\ Count("search")' = Count("search")]_vars

\* a fetch that failed after another had gone through, with a message left
\* unseen, and the error at the caller
C6_Witness ==
    /\ spc = "done"
    /\ raised = Error("ValueError", "fetch")
    /\ Len(fetched) >= 1
    /\ unseen # {}

\* the body holds each of the four header lines once after the marker
AllFour(g) ==
    /\ g.marker \in {"gmail", "iphone"}
    /\ Len(g.order) = 4
    /\ {g.order[i] : i \in 1..4} = 1..4

\* the noise of the body is blank lines only
OnlyBlankNoise(g) == \A i \in 1..Len(g.noise) : g.noise[i].line = BlankLine

\* C7: for every body with the Gmail marker line followed by one From, one
\* Date, one Subject and one To line in any order, with blank lines in
\* between and with lines behind the quote prefix '> ', _forwarded_text
\* followed by _forwarded_headers yields exactly those four header values.
\* Stated for the bodies in which the forwarded mail's text follows the
\* four lines.
C7_RoundTrip ==
    (/\ tpc = "done" /\ gen.marker = "gmail" /\ AllFour(gen)
     /\ OnlyBlankNoise(gen) /\ gen.tail # <<>>) =>
        /\ text.k = "list"
        /\ \A k \in 1..4 :
              Get(ForwardedHeaders(text.v), HeaderNames[k]) = Str(gen.values[k])

\* C8: _forwarded_text returns the block of the Gmail scan whenever that
\* scan yields one, and the result of the iPhone scan only when the Gmail
\* scan yields nothing; for every body without the Gmail marker and with
\* the iPhone marker line followed by the four header lines the extraction
\* returns those four header lines.
C8_IPhoneFallback ==
    tpc = "done" =>
        /\ ForwardedData(SplitCRLF(msg.payload), GmailBegin).k = "list"
              => text = ForwardedData(SplitCRLF(msg.payload), GmailBegin)
        /\ IsNone(ForwardedData(SplitCRLF(msg.payload), GmailBegin))
              => text = ForwardedData(SplitCRLF(msg.payload), IPhoneBegin)
        /\ (gen.marker = "iphone" /\ gen.order = Canonical
            /\ gen.noise = <<>> /\ gen.quoted = {})
              => text = List([k \in 1..4 |-> HeaderLine(gen, k)])

\* C9: every message that passes all validation checks yields one user
\* record, whose email is the address part of the reconstructed From and
\* whose names are 'Friendly' and 'Human'; the scenario's message (Gmail
\* marker, From 'Jane Doe <jane@example.com>', Subject 'Join Us', To
\* signup@svc.com, the forwarded mail's text after them) yields
\* (jane@example.com, Friendly, Human).
Scenario ==
    /\ cfg = MainConfig
    /\ gen.marker = "gmail" /\ gen.order = Canonical /\ gen.values = GoodValues
    /\ gen.noise = <<>> /\ gen.tail # <<>>
    /\ gen.deliveredTo = Str(InboxAddr)
    /\ gen.subject = Str(<<"F","w","d",":"," ">> \o JoinUs)

C9_PassingMessageYieldsRecord ==
    upc = "done" =>
        /\ AllChecks(msg, cfg) =>
              user = [k |-> "user", email |-> AddressOf(msg, <<"F","r","o","m">>),
                      first_name |-> <<"F","r","i","e","n","d","l","y">>,
                      last_name |-> <<"H","u","m","a","n">>]
        /\ Scenario =>
              user = [k |-> "user", email |-> JaneAddr,
                      first_name |-> <<"F","r","i","e","n","d","l","y">>,
                      last_name |-> <<"H","u","m","a","n">>]

\* the scenario's message has been validated and gave a record
C9_Witness == upc = "done" /\ Scenario /\ gen.quoted = {} /\ IsUser(user)

\* C10: create_kajabi_user issues exactly one POST per call and reports
\* success if and only if the status is 200 and the body is exactly '1'.
C10_SuccessIffOkAndOne ==
    /\ kpc = "ready" => posts = <<>>
    /\ kpc = "done" =>
          /\ Len(posts) = 1
          /\ kres = TRUE <=> (kresp.status_code = 200 /\ kresp.text = <<"1">>)

\* status 200 with a body that only starts with '1': reported as failure
C10_Witness ==
    /\ kpc = "done"
    /\ kresp.status_code = 200 /\ kresp.text = <<"1", "\n">>
    /\ kres = FALSE

\* the iterator _unprocessed_emails has ended by itself: the with block of
\* new_users is being left, or has been left, with no exception under way
IteratorEnded ==
    /\ spc \in {"close", "logout", "done"}
    /\ IsNone(pending)
    /\ Connected

\* C11: the iterator ends immediately after the first search that returns
\* no ids, with no fetch after that search; absent an error it does not end
\* while searches return ids: every search that returns ids is followed by
\* a fetch, and a search of a mailbox with unseen messages returns ids.
C11_EndsOnFirstEmptySearch ==
    /\ [](IteratorEnded =>
            /\ searchLog # <<>>
            /\ searchLog[Len(searchLog)] = <<>>
            /\ \A i \in 1..(Len(searchLog) - 1) : searchLog[i] # <<>>
            /\ \A i \in 1..Len(calls) :
                  calls[i] = "fetch" =>
                      \E j \in (i + 1)..Len(calls) : calls[j] = "search")
    /\ [][(Len(searchLog') > Len(searchLog)) =>
            /\ searchLog'[Len(searchLog')] = <<>> <=> unseen = {}
            /\ IF searchLog'[Len(searchLog')] = <<>>
               THEN spc' = "close" /\ IsNone(pending')
               ELSE spc' = "fetch"]_vars

\* a scan that went through two rounds of search and fetch and ended on
\* the third search, which returned no ids
C11_Witness ==
    /\ spc = "done" /\ IteratorEnded
    /\ Len(searchLog) >= 3
    /\ Len(fetched) >= 2

\* the checks of the outer message, as the claims state them
OuterPasses(m, c) ==
    /\ ~IsNone(m.deliveredTo)
    /\ Lower(m.deliveredTo.v) = Lower(c.fwd_addr)
    /\ ~IsNone(c.subject) =>
          /\ ~IsNone(m.subject)
          /\ m.subject.v = <<"F","w","d",":"," ">> \o c.subject.v

\* the address of the reconstructed To is among the configured addresses
ToIsMember(m, c) ==
    \E a \in c.to_addrs : Lower(a) = Lower(AddressOf(m, <<"T","o">>))

\* C12: _forwarding_user applies its checks in the order Delivered-To
\* present, Delivered-To equal to fwd_addr, outer Subject, extraction of
\* the forwarded block, To membership, inner Subject, From address, and
\* stops at the first that fails: a message whose outer checks fail yields
\* no record whatever its body holds (the body is not examined), a To that
\* is not a member or an inner Subject that differs yields no record
\* whatever the From line holds.
C12_ChecksInFixedOrder ==
    upc = "done" =>
        /\ ~OuterPasses(msg, cfg) => IsNone(user)
        /\ (OuterPasses(msg, cfg) /\ IsNone(ForwardedText(msg))) => IsNone(user)
        /\ (/\ OuterPasses(msg, cfg)
            /\ ForwardedText(msg).k = "list"
            /\ AddressOf(msg, <<"T","o">>) # <<>>
            /\ ~ToIsMember(msg, cfg)) => IsNone(user)
        /\ (/\ OuterPasses(msg, cfg)
            /\ ForwardedText(msg).k = "list"
            /\ ToIsMember(msg, cfg)
            /\ ~IsNone(cfg.subject)
            /\ Get(Rebuilt(msg), <<"S","u","b","j","e","c","t">>) # Str(cfg.subject.v))
              => IsNone(user)

\* an outer Subject that mismatches over a body whose examination raises:
\* no record, and no exception
C12_Witness ==
    /\ upc = "done"
    /\ ~IsNone(msg.deliveredTo) /\ Lower(msg.deliveredTo.v) = Lower(cfg.fwd_addr)
    /\ ~OuterPasses(msg, cfg)
    /\ IsExc(ForwardedText(msg))
    /\ IsNone(user)

\* C13: once the marker has been found and all four expected headers have
\* been collected, _forwarded_data returns the collected lines at once,
\* whatever follows the last of them, also when the fourth header line is
\* the last line of the body.  Stated for the bodies whose block starts
\* with the From line, so that all four lines are collected.
C13_ReturnsOnceAllCollected ==
    (tpc = "done" /\ AllFour(gen) /\ gen.order[1] = 1 /\ gen.noise = <<>>) =>
        /\ text.k = "list"
        /\ Len(text.v) = 4

\* the four header lines of the body as they stand in it, in its order
PlainBlock(g) == [k \in 1..4 |-> HeaderLine(g, g.order[k])]

\* the noise of the body is one continuation line after the p-th header line
OneContinuationAfter(g, p) == g.noise = <<[pos |-> p, line |-> Continuation]>>

\* C14: a non-blank line after the marker that starts no still-expected
\* header is appended exactly once, after a single space, to the most
\* recently collected header line; a line that starts a still-expected
\* header is collected as its own line and leaves the lines collected
\* before it unchanged.
C14_ContinuationAppendedOnce ==
    (tpc = "done" /\ AllFour(gen) /\ gen.quoted = {} /\ gen.tail # <<>>) =>
        /\ gen.noise = <<>> => text = List(PlainBlock(gen))
        /\ \A p \in 1..3 :
              (gen.order = Canonical /\ OneContinuationAfter(gen, p)) =>
                  text = List([PlainBlock(gen) EXCEPT
                                  ![p] = @ \o <<" ">> \o Continuation])

\* the k-th header line without a quote prefix
BareLine(g, k) == HeaderNames[k] \o <<":", " ">> \o g.values[k]

\* the noise of the body is blank lines, bare or behind the quote prefix
OnlySkippedNoise(g) ==
    \A i \in 1..Len(g.noise) : g.noise[i].line \in {BlankLine, QuotedBlank}

\* C15: a line after the marker that carries the quote prefix '> ' is
\* inspected with exactly that prefix removed, a line without it is
\* inspected unchanged, and a blank line is skipped, changing neither the
\* collected lines nor the still-expected headers, also when the line is
\* blank only once its quote prefix is removed.
C15_QuotePrefixAndBlankLines ==
    (/\ tpc = "done" /\ AllFour(gen) /\ gen.order = Canonical
     /\ gen.tail # <<>> /\ OnlySkippedNoise(gen)) =>
        text = List([k \in 1..4 |-> BareLine(gen, k)])

\* the lines of the body after the marker line (the marker is its second line)
AfterMarker(g) == SubSeq(BodyLines(g), 3, Len(BodyLines(g)))

\* the first line of lines that is not blank, or the empty line when all are
FirstNonBlank(lines) ==
    IF \A i \in 1..Len(lines) : IsBlank(lines[i]) THEN <<>>
    ELSE lines[Min({i \in 1..Len(lines) : ~IsBlank(lines[i])})]

\* line starts none of the expected headers, with or without a quote prefix
StartsNoHeader(line) ==
    \A k \in 1..4 :
        /\ ~StartsWith(Lower(line), ExpectedHeaders[k])
        /\ ~StartsWith(Lower(line), <<">", " ">> \o ExpectedHeaders[k])

\* C17: when the first non-blank line after the marker is a continuation
\* line (it starts none of the expected headers, so that no header line has
\* been collected yet), _forwarded_data fails with an out-of-range access
\* (IndexError) instead of returning a block or None.
C17_ContinuationFirstRaises ==
    (/\ tpc = "done" /\ gen.marker \in {"gmail", "iphone"}
     /\ FirstNonBlank(AfterMarker(gen)) # <<>>
     /\ StartsNoHeader(FirstNonBlank(AfterMarker(gen)))) =>
        text = Exc("IndexError")

\* a continuation line right after the marker, the four header lines after it
C17_Witness ==
    /\ tpc = "done"
    /\ gen.marker = "gmail"
    /\ gen.noise = <<[pos |-> 0, line |-> Continuation]>>
    /\ text = Exc("IndexError")

\* the expected header names that some line of block starts with
NamesIn(block) ==
    {k \in 1..4 : \E i \in 1..Len(block) :
                      StartsWith(Lower(block[i]), ExpectedHeaders[k])}

\* C19: whenever _forwarded_data returns a block, the block has exactly
\* four lines, in the order they stood in the body, and the four lines
\* begin (ignoring case) with four distinct names out of from, date,
\* subject, to; when the marker is found and fewer than four of the
\* expected headers follow it, nothing is returned, never a partial block.
C19_BlockHasFourHeaders ==
    tpc = "done" =>
        /\ text.k = "list" =>
              /\ Len(text.v) = 4
              /\ NamesIn(text.v) = 1..4
              /\ \A i \in 1..4 : NamesIn(<<text.v[i]>>) # {}
              /\ AllFour(gen) =>
                    \A i \in 1..4 :
                        StartsWith(Lower(text.v[i]), ExpectedHeaders[gen.order[i]])
        /\ (/\ gen.marker \in {"gmail", "iphone"}
            /\ {gen.order[i] : i \in 1..Len(gen.order)} # 1..4) => text.k # "list"

\* a block returned for quoted header lines that stand in the order From,
\* Date, To, Subject
C19_Witness ==
    /\ tpc = "done"
    /\ text.k = "list"
    /\ gen.order = <<1, 2, 4, 3>>
    /\ gen.quoted = 1..4

\* number of times the command c was answered with OK
CountOK(c) ==
    Cardinality({i \in 1..Len(calls) : calls[i] = c /\ codes[i] = "OK"})

\* C16: every mailbox command the scan issues (login, select, search,
\* fetch, close, logout) has its status checked: a status other than OK
\* raises an error of that command, and the result of a command whose
\* status is not OK is never used as data.
C16_StatusCheckedUniformly ==
    /\ \A i \in 1..Len(codes) :
          codes[i] = "NO" => \E e \in errors : e.by = calls[i]
    /\ Len(searchLog) = CountOK("search")
    /\ Len(fetched) = CountOK("fetch")

\* the scan ran to its end: no mailbox command failed and the caller took
\* every record
RanToEnd ==
    /\ spc = "done"
    /\ Connected
    /\ \A e \in errors : e.by \notin MailboxCommands
    /\ pending # Error("GeneratorExit", "caller")

\* C18: against a mailbox where a fetch marks the fetched message seen, no
\* new mail arrives and no other agent changes flags, a scan over a finite
\* set of initially unseen messages fetches every one of them and hands it
\* to the validator exactly once, whether or not it passes validation.
C18_EveryUnseenFetchedOnce ==
    RanToEnd =>
        /\ Len(fetched) = arrived
        /\ {fetched[i] : i \in 1..Len(fetched)} = 1..arrived
        /\ Len(handled) = arrived
====
